---- MODULE Spec2Model ----
(***************************************************************************)
(* Model of the lecture-vector-search scripts:                             *)
(*   1-end/seed.js    seedData: clear the collection, then embed and       *)
(*                    insert every product, one after the other            *)
(*   1-end/helpers.js generateEmbedding                                    *)
(*   1-end/search.js  search: embed the query, run $vectorSearch           *)
(* Every script is its own node process with its own MongoClient; all of   *)
(* them share the collection 'products' of the database.                   *)
(*                                                                         *)
(* Texts are sequences of character codes.  An embedding vector of length  *)
(* dim is represented by its length and its first two components, the      *)
(* remaining components being zero: [dim, x, y].                           *)
(***************************************************************************)
EXTENDS Integers, Sequences, FiniteSets, TLC

VARIABLES
    collection,   \* the documents of db.collection('products')
    pc,           \* seed.js: where each run of seedData stands
    idx,          \* seed.js: position of the for..of loop over products
    embedding,    \* seed.js: the local `embedding` of the current iteration
    out,          \* seed.js: console output of each run
    closes,       \* seed.js: number of db.client.close() calls of each run
    before,       \* history: _ids in the collection when the run was launched
    embedCalls,   \* history: product positions generateEmbedding was called for
    inserted,     \* history: product positions insertOne succeeded for
    thrown,       \* history: what the try block of the run threw, if anything
    sPc,          \* search.js: where the script stands
    argv,         \* search.js: process.argv.slice(2)
    query,        \* search.js: the parameter `query` of search
    queryVector,  \* search.js: the local `embedding` of search
    results,      \* search.js: the local `products`, the answer of aggregate
    sOut,         \* search.js: console output
    sCloses,      \* search.js: number of db.client.close() calls
    sEmbedCalls,  \* history: number of generateEmbedding calls of search
    sAggregates,  \* history: number of aggregate calls of search
    sThrown,      \* history: what the try block of search threw, if anything
    settled,      \* search.js: how the promise of search(query) settled
    issued,       \* history: the $vectorSearch parameters of the pipeline issued
    kPc,          \* 0-start search.js: where the script stands
    kArgv,        \* 0-start search.js: process.argv.slice(2)
    kQuery,       \* 0-start search.js: the parameter `query` of search
    kResults,     \* 0-start search.js: the local `products`, the answer of find
    kOut,         \* 0-start search.js: console output
    kCloses,      \* 0-start search.js: number of db.client.close() calls
    kFinds,       \* history: number of find calls
    kSnapshot,    \* history: the collection as it was when find was answered
    kThrown,      \* history: what the try block threw, if anything
    kSettled,     \* 0-start search.js: how the promise of search(query) settled
    bPc,          \* batchGenerateEmbeddings: where the call stands
    items,        \* batchGenerateEmbeddings: the parameter `items`
    batchSize,    \* batchGenerateEmbeddings: the parameter `batchSize`
    bI,           \* batchGenerateEmbeddings: the loop variable `i`
    inFlight,     \* positions of items whose generateEmbedding call is outstanding
    answers,      \* what the fulfilled calls of the current batch answered
    bResults,     \* batchGenerateEmbeddings: the local `results`
    rPc,          \* generateEmbeddingWithRetry: where the call stands
    rText,        \* generateEmbeddingWithRetry: the parameter `text`
    maxRetries,   \* generateEmbeddingWithRetry: the parameter `maxRetries`
    rI,           \* generateEmbeddingWithRetry: the loop variable `i`
    rOutcomes,    \* history: outcome of every generateEmbedding call, in order
    rWaits,       \* history: the delays waited between attempts, in ms
    rValue        \* generateEmbeddingWithRetry: the value returned

seedVars == <<pc, idx, embedding, out, closes, before, embedCalls, inserted, thrown>>
searchVars == <<sPc, argv, query, queryVector, results, sOut, sCloses,
                sEmbedCalls, sAggregates, sThrown, settled, issued>>
keywordVars == <<kPc, kArgv, kQuery, kResults, kOut, kCloses, kFinds, kSnapshot,
                 kThrown, kSettled>>
batchVars == <<bPc, items, batchSize, bI, inFlight, answers, bResults>>
retryVars == <<rPc, rText, maxRetries, rI, rOutcomes, rWaits, rValue>>
helperVars == <<batchVars, retryVars>>
vars == <<collection, seedVars, searchVars, keywordVars, helperVars>>

(***************************************************************************)
(* Bounds and program constants                                            *)
(***************************************************************************)
\* number of entries of products.json
NumProducts == 4

\* config.outputDimensionality of embedContent
OutputDimensionality == 768

\* character codes of the template literal `${name}. ${description}`
Dot == 46
Space == 32

\* two runs of `node seed.js` against the same database
Runs == {"A", "B"}

NoVector == [dim |-> 0, x |-> 0, y |-> 0]
NoThrow == [op |-> "none", at |-> 0]

(***************************************************************************)
(* Data: products.json, and what the remote embedding model answers        *)
(***************************************************************************)
\* products.json: product i is named by one capital letter and described by
\* one small letter
products == [i \in 1..NumProducts |->
               [name |-> <<64 + i>>, description |-> <<97 + (i % 3)>>]]

RECURSIVE SumCodes(_)
SumCodes(text) == IF text = <<>> THEN 0 ELSE Head(text) + SumCodes(Tail(text))

\* the vector the model gemini-embedding-001 computes for a text, cut to
\* `dim` components: a fixed function of the text, never the zero vector
Values(text, dim) ==
    [dim |-> dim, x |-> SumCodes(text) % 4, y |-> 1 + (Len(text) % 3)]

\* lengths of response.embeddings[0].values the service may answer with; the
\* scripts take the answer as it comes
ResponseDims == {OutputDimensionality, OutputDimensionality - 1}

\* ai.models.embedContent({model, contents: text, config}): the possible
\* outcomes of one call, an answer or a rejected promise
embedContent(text) ==
    {[ok |-> TRUE, values |-> Values(text, d)] : d \in ResponseDims}
        \cup {[ok |-> FALSE, values |-> NoVector]}

\* seed.js generateEmbedding(text): response.embeddings[0].values, or throws
generateEmbedding(text) == embedContent(text)

(***************************************************************************)
(* The collection                                                          *)
(***************************************************************************)
\* faulty variant: a filter that matches nothing
deleteManyNothing(coll) == coll

\* deleteMany({}): the empty filter matches every document
deleteMany(coll) == {}

\* insertOne(document): the driver gives the document a fresh _id
insertOne(coll, document, id) == coll \cup {[_id |-> id] @@ document}

\* the ObjectId the driver generates for the insert of product i by run r
ObjectId(r, i) == <<r, i>>

(***************************************************************************)
(* seed.js seedData                                                        *)
(***************************************************************************)
\* `${product.name}. ${product.description}`
textToEmbed(product) == product.name \o <<Dot, Space>> \o product.description

\* faulty variant: the vector is cut or padded to the requested length
DocumentResized(product, e) ==
    [name |-> product.name, description |-> product.description,
     embedding |-> [e EXCEPT !.dim = OutputDimensionality]]

\* faulty variant: the document is written without its vector
DocumentWithoutEmbedding(product, e) ==
    [name |-> product.name, description |-> product.description, embedding |-> NoVector]

\* { ...product, embedding: embedding, createdAt: new Date() }
\* (the timestamp is left out: nothing reads it)
Document(product, e) ==
    [name |-> product.name, description |-> product.description, embedding |-> e]

Entry(tag, value) == [t |-> tag, v |-> value]

\* faulty variant: try/catch inside the loop body: the failed record is skipped
seedDataCatchContinue(i) ==
    IF i < NumProducts THEN [pc |-> "embed", idx |-> i + 1]
                       ELSE [pc |-> "close", idx |-> i + 1]

\* faulty variant: the failed call is made again
seedDataCatchRetry(i) == [pc |-> IF i = 0 THEN "deleteMany" ELSE "embed", idx |-> i]

\* faulty variant: a catch clause that ends the function, no finally clause
seedDataCatchNoClose(i) == [pc |-> "done", idx |-> i]

\* where the run goes when an await inside the try block throws while the
\* loop stands at position i: the catch clause is outside the loop, so the
\* loop is left and the finally clause closes the client
seedDataCatch(i) == [pc |-> "close", idx |-> i]

\* faulty variant: the loop stops one product early
seedDataLoopShort(i, log) ==
    IF i < NumProducts
    THEN [pc |-> "embed", idx |-> i, out |-> log]
    ELSE [pc |-> "close", idx |-> i,
          out |-> log \o <<Entry("success", <<>>), Entry("total", <<NumProducts>>)>>]

\* the loop header `for (const product of products)` reaching position i;
\* after the last product the two closing console.log lines run
seedDataLoop(i, log) ==
    IF i <= NumProducts
    THEN [pc |-> "embed", idx |-> i, out |-> log]
    ELSE [pc |-> "close", idx |-> i,
          out |-> log \o <<Entry("success", <<>>), Entry("total", <<NumProducts>>)>>]

\* catch (error) { console.error('Error seeding data:', error) }
Throw(r, op) ==
    LET to == seedDataCatch(idx[r]) IN
    /\ pc' = [pc EXCEPT ![r] = to.pc]
    /\ idx' = [idx EXCEPT ![r] = to.idx]
    /\ out' = [out EXCEPT ![r] = Append(@, Entry("error", <<>>))]
    /\ thrown' = [thrown EXCEPT ![r] = [op |-> op, at |-> idx[r]]]

\* `node seed.js` is launched: seedData() is called and issues deleteMany
seedDataStart(r) ==
    /\ pc[r] = "idle"
    /\ pc' = [pc EXCEPT ![r] = "deleteMany"]
    /\ before' = [before EXCEPT ![r] = {d._id : d \in collection}]
    /\ UNCHANGED <<collection, idx, embedding, out, closes, embedCalls, inserted, thrown>>
    /\ UNCHANGED <<searchVars, keywordVars, helperVars>>

\* await db.collection('products').deleteMany({})
seedDataDeleteMany(r) ==
    /\ pc[r] = "deleteMany"
    /\ \/ LET to == seedDataLoop(1, Append(out[r], Entry("cleared", <<>>))) IN
          /\ collection' = deleteMany(collection)
          /\ pc' = [pc EXCEPT ![r] = to.pc]
          /\ idx' = [idx EXCEPT ![r] = to.idx]
          /\ out' = [out EXCEPT ![r] = to.out]
          /\ UNCHANGED thrown
       \/ /\ Throw(r, "deleteMany")
          /\ UNCHANGED collection
    /\ UNCHANGED <<embedding, closes, before, embedCalls, inserted>>
    /\ UNCHANGED <<searchVars, keywordVars, helperVars>>

\* const embedding = await generateEmbedding(textToEmbed)
seedDataEmbed(r) ==
    /\ pc[r] = "embed"
    /\ embedCalls' = [embedCalls EXCEPT ![r] = Append(@, idx[r])]
    /\ \E resp \in generateEmbedding(textToEmbed(products[idx[r]])) :
          \/ /\ resp.ok
             /\ embedding' = [embedding EXCEPT ![r] = resp.values]
             /\ out' = [out EXCEPT ![r] = Append(@, Entry("embeddings", <<>>))]
             /\ pc' = [pc EXCEPT ![r] = "insert"]
             /\ UNCHANGED <<idx, thrown>>
          \/ /\ ~resp.ok
             /\ Throw(r, "embed")
             /\ UNCHANGED embedding
    /\ UNCHANGED <<collection, closes, before, inserted>>
    /\ UNCHANGED <<searchVars, keywordVars, helperVars>>

\* await db.collection('products').insertOne(document)
seedDataInsertOne(r) ==
    /\ pc[r] = "insert"
    /\ \/ LET product == products[idx[r]]
              to == seedDataLoop(idx[r] + 1,
                                 Append(out[r], Entry("inserted", product.name)))
          IN
          /\ collection' = insertOne(collection, Document(product, embedding[r]),
                                     ObjectId(r, idx[r]))
          /\ inserted' = [inserted EXCEPT ![r] = Append(@, idx[r])]
          /\ pc' = [pc EXCEPT ![r] = to.pc]
          /\ idx' = [idx EXCEPT ![r] = to.idx]
          /\ out' = [out EXCEPT ![r] = to.out]
          /\ UNCHANGED thrown
       \/ /\ Throw(r, "insertOne")
          /\ UNCHANGED <<collection, inserted>>
    /\ UNCHANGED <<embedding, closes, before, embedCalls>>
    /\ UNCHANGED <<searchVars, keywordVars, helperVars>>

\* finally { await db.client.close() }
seedDataClose(r) ==
    /\ pc[r] = "close"
    /\ closes' = [closes EXCEPT ![r] = @ + 1]
    /\ pc' = [pc EXCEPT ![r] = "done"]
    /\ UNCHANGED <<collection, idx, embedding, out, before, embedCalls, inserted, thrown>>
    /\ UNCHANGED <<searchVars, keywordVars, helperVars>>

seedData(r) ==
    \/ seedDataStart(r)
    \/ seedDataDeleteMany(r)
    \/ seedDataEmbed(r)
    \/ seedDataInsertOne(r)
    \/ seedDataClose(r)

(***************************************************************************)
(* The vector search index 'vector_index' and the $vectorSearch stage      *)
(***************************************************************************)
\* "numDimensions": 768 of the index definition
NumDimensions == 768

\* the index holds the documents whose field `embedding` is a vector of
\* numDimensions components
Indexed(coll) == {d \in coll : d.embedding.dim = NumDimensions}

\* "similarity": "cosine".  All components are >= 0, so the cosine is >= 0
\* and its square, an exact fraction, orders as the reported score does
Score(v, q) ==
    [num |-> (v.x * q.x + v.y * q.y) * (v.x * q.x + v.y * q.y),
     den |-> (v.x * v.x + v.y * v.y) * (q.x * q.x + q.y * q.y)]

\* s1 >= s2 for two scores
ScoreGeq(s1, s2) == s1.num * s2.den >= s2.num * s1.den

Min(a, b) == IF a <= b THEN a ELSE b

\* the nearest neighbours among `cand`, best first, at most k of them; the
\* order among equal scores is not determined
RECURSIVE Nearest(_, _, _)
Nearest(cand, q, k) ==
    IF k = 0 \/ cand = {} THEN {<<>>}
    ELSE LET best == {d \in cand : \A e \in cand :
                         ScoreGeq(Score(d.embedding, q), Score(e.embedding, q))}
         IN UNION {{<<d>> \o rest : rest \in Nearest(cand \ {d}, q, k - 1)} : d \in best}

\* $vectorSearch: numCandidates documents of the index are examined, the
\* `limit` nearest of them are returned, each with its score
vectorSearch(coll, q, numCandidates, limit) ==
    LET n == Min(numCandidates, Cardinality(Indexed(coll))) IN
    UNION {Nearest(cand, q, limit) :
              cand \in {c \in SUBSET Indexed(coll) : Cardinality(c) = n}}

\* $project: { _id: 0, name: 1, score: { $meta: 'vectorSearchScore' } }
project(docs, q) ==
    [k \in 1..Len(docs) |->
        [name |-> docs[k].name, score |-> Score(docs[k].embedding, q)]]

(***************************************************************************)
(* search.js (vector search)                                               *)
(***************************************************************************)
\* faulty variant: one result more
limitPlusOne == 3 + 1

\* faulty variant: fewer candidates than results asked for
numCandidatesTooFew == 3 - 1

\* numCandidates: 768 and limit: 3 of the pipeline
numCandidates == 768
limit == 3

\* the $vectorSearch parameters of `pipeline`
pipeline == [numCandidates |-> numCandidates, limit |-> limit]

NoPipeline == [numCandidates |-> 0, limit |-> 0]

\* what $vectorSearch demands of a request before it runs it: a queryVector
\* of the index's dimensions, and numCandidates not smaller than limit
accepts(p, q) == q.dim = NumDimensions /\ p.numCandidates >= p.limit

\* the answers aggregate(pipeline).toArray() can give
aggregate(coll, q) ==
    {project(docs, q) : docs \in vectorSearch(coll, q, pipeline.numCandidates, pipeline.limit)}

\* helpers.js generateEmbedding(text)
helpersGenerateEmbedding(text) == embedContent(text)

\* process.argv.slice(2).join(' ')
RECURSIVE join(_)
join(args) ==
    IF Len(args) = 0 THEN <<>>
    ELSE IF Len(args) = 1 THEN args[1]
    ELSE args[1] \o <<Space>> \o join(Tail(args))

\* faulty variant: if (process.argv.length > 2)
hasQueryByLength(args) == Len(args) >= 1

\* if (process.argv[2]): the first argument is there and is not ""
hasQuery(args) == Len(args) >= 1 /\ args[1] # <<>>

\* the command lines the script is started with
Argvs == {<<>>, << <<>> >>, << <<>>, <<65>> >>, << <<65>> >>, << <<104>>, <<105>> >>}

NoResults == <<>>

\* faulty variant: the catch clause throws the error again
searchCatchRethrow(op) == [thrown |-> op, rethrow |-> TRUE]

\* catch (error) { console.error('Error searching data:', error) }: the
\* error is logged and not thrown again
searchCatch(op) == [thrown |-> op, rethrow |-> FALSE]

SearchThrow(op) ==
    LET c == searchCatch(op) IN
    /\ sThrown' = c
    /\ sOut' = Append(sOut, Entry("error", <<>>))
    /\ sPc' = "close"

\* `node search.js ...` is launched
searchMain ==
    /\ sPc = "idle"
    /\ \E a \in Argvs :
          /\ argv' = a
          /\ IF hasQuery(a)
             THEN /\ query' = join(a)
                  /\ sOut' = Append(sOut, Entry("searching", join(a)))
                  /\ sPc' = "embed"
             ELSE /\ sOut' = Append(sOut, Entry("usage", <<>>))
                  /\ sPc' = "exit"
                  /\ UNCHANGED query
    /\ UNCHANGED <<queryVector, results, sCloses, sEmbedCalls, sAggregates, sThrown, settled, issued>>
    /\ UNCHANGED <<collection, seedVars, keywordVars, helperVars>>

\* const embedding = await generateEmbedding(query)
searchEmbed ==
    /\ sPc = "embed"
    /\ sEmbedCalls' = sEmbedCalls + 1
    /\ \E resp \in helpersGenerateEmbedding(query) :
          \/ /\ resp.ok
             /\ queryVector' = resp.values
             /\ sPc' = "aggregate"
             /\ UNCHANGED <<sOut, sThrown>>
          \/ /\ ~resp.ok
             /\ SearchThrow("embed")
             /\ UNCHANGED queryVector
    /\ UNCHANGED <<argv, query, results, sCloses, sAggregates, settled, issued>>
    /\ UNCHANGED <<collection, seedVars, keywordVars, helperVars>>

\* const products = await db.collection('products').aggregate(pipeline).toArray()
\* $vectorSearch refuses a request it does not accept
searchAggregate ==
    /\ sPc = "aggregate"
    /\ sAggregates' = sAggregates + 1
    /\ issued' = pipeline
    /\ \/ /\ accepts(pipeline, queryVector)
          /\ \E res \in aggregate(collection, queryVector) :
                /\ results' = res
                /\ sOut' = sOut \o <<Entry("results header", <<>>), Entry("results", res)>>
          /\ sPc' = "close"
          /\ UNCHANGED sThrown
       \/ /\ SearchThrow("aggregate")
          /\ UNCHANGED results
    /\ UNCHANGED <<argv, query, queryVector, sCloses, sEmbedCalls, settled>>
    /\ UNCHANGED <<collection, seedVars, keywordVars, helperVars>>

\* finally { await db.client.close() }, after which the promise settles
searchClose ==
    /\ sPc = "close"
    /\ sCloses' = sCloses + 1
    /\ settled' = IF sThrown.rethrow THEN "rejected" ELSE "fulfilled"
    /\ sPc' = "done"
    /\ UNCHANGED <<argv, query, queryVector, results, sOut, sEmbedCalls, sAggregates, sThrown, issued>>
    /\ UNCHANGED <<collection, seedVars, keywordVars, helperVars>>

search ==
    \/ searchMain
    \/ searchEmbed
    \/ searchAggregate
    \/ searchClose

(***************************************************************************)
(* 0-start search.js (keyword search)                                      *)
(***************************************************************************)
\* $options: 'i': letters are compared without regard to case
fold(c) == IF 65 <= c /\ c <= 90 THEN c + 32 ELSE c

\* the reading of one pattern character as a regular expression: a
\* dot stands for any character, a letter or a space for itself
regexCharMatches(p, c) == p = Dot \/ fold(p) = fold(c)

\* { $regex: query, $options: 'i' }: the pattern, which is not anchored,
\* matches somewhere in the text.  Patterns are made of letters, spaces and
\* dots
regexMatches(pattern, text) ==
    \E off \in 0..(Len(text) - Len(pattern)) :
        \A j \in 1..Len(pattern) : regexCharMatches(pattern[j], text[off + j])

\* db.collection('products').find({ name: { $regex: query, $options: 'i' } })
find(coll, q) == {d \in coll : regexMatches(q, d.name)}

\* the command lines the script is started with
KeywordArgvs ==
    {<<>>, << <<>> >>, << <<65>> >>, << <<98>> >>, << <<Dot>> >>, << <<65>>, <<66>> >>}

\* catch (error) { console.error('Error searching data:', error) }
keywordCatch(op) == [thrown |-> op, rethrow |-> FALSE]

\* `node search.js ...` of 0-start is launched; the dispatch on
\* process.argv is the one of 1-end/search.js, line for line
keywordMain ==
    /\ kPc = "idle"
    /\ \E a \in KeywordArgvs :
          /\ kArgv' = a
          /\ IF hasQuery(a)
             THEN /\ kQuery' = join(a)
                  /\ kOut' = Append(kOut, Entry("searching", join(a)))
                  /\ kPc' = "find"
             ELSE /\ kOut' = Append(kOut, Entry("usage", <<>>))
                  /\ kPc' = "exit"
                  /\ UNCHANGED kQuery
    /\ UNCHANGED <<kResults, kCloses, kFinds, kSnapshot, kThrown, kSettled>>
    /\ UNCHANGED <<collection, seedVars, searchVars, helperVars>>

\* const products = await db.collection('products').find({...}).toArray()
keywordFind ==
    /\ kPc = "find"
    /\ kFinds' = kFinds + 1
    /\ \/ /\ kResults' = find(collection, kQuery)
          /\ kSnapshot' = collection
          /\ kOut' = kOut \o <<Entry("results header", <<>>),
                               Entry("results", find(collection, kQuery))>>
          /\ UNCHANGED kThrown
       \/ /\ kThrown' = keywordCatch("find")
          /\ kOut' = Append(kOut, Entry("error", <<>>))
          /\ UNCHANGED <<kResults, kSnapshot>>
    /\ kPc' = "close"
    /\ UNCHANGED <<kArgv, kQuery, kCloses, kSettled>>
    /\ UNCHANGED <<collection, seedVars, searchVars, helperVars>>

\* finally { await db.client.close() }, after which the promise settles
keywordClose ==
    /\ kPc = "close"
    /\ kCloses' = kCloses + 1
    /\ kSettled' = IF kThrown.rethrow THEN "rejected" ELSE "fulfilled"
    /\ kPc' = "done"
    /\ UNCHANGED <<kArgv, kQuery, kResults, kOut, kFinds, kSnapshot, kThrown>>
    /\ UNCHANGED <<collection, seedVars, searchVars, helperVars>>

keywordSearch ==
    \/ keywordMain
    \/ keywordFind
    \/ keywordClose

(***************************************************************************)
(* README, Advanced Features 2: batchGenerateEmbeddings(items, batchSize)  *)
(***************************************************************************)
\* largest `items.length` and largest `batchSize` the function is called with
MaxItems == 3
MaxBatchSize == 2

\* the items of a call: n texts, one letter each
ItemsOf(n) == [k \in 1..n |-> <<64 + k>>]

\* faulty variant: items.slice(i), the whole rest at once
batchSliceRest(i, size, n) == {k \in 1..n : i < k}

\* items.slice(i, i + batchSize): the positions (1-based) of the batch
batchSlice(i, size, n) == {k \in 1..n : i < k /\ k <= i + size}

\* the for loop reaching i with `results` = res: the calls of the next batch
\* are all issued by batch.map, or the function returns
batchLoop(i, size, its, res) ==
    IF i < Len(its)
    THEN [pc |-> "await", inFlight |-> batchSlice(i, size, Len(its))]
    ELSE [pc |-> "returned", inFlight |-> {}]

\* batchGenerateEmbeddings(items, batchSize) is called
batchCall ==
    /\ bPc = "idle"
    /\ \E n \in 0..MaxItems, size \in 0..MaxBatchSize :
          LET to == batchLoop(0, size, ItemsOf(n), <<>>) IN
          /\ items' = ItemsOf(n)
          /\ batchSize' = size
          /\ bPc' = to.pc
          /\ inFlight' = to.inFlight
    /\ bI' = 0
    /\ answers' = <<>>
    /\ bResults' = <<>>
    /\ UNCHANGED <<collection, seedVars, searchVars, keywordVars, retryVars>>

\* one outstanding generateEmbedding(item) call settles; a rejection rejects
\* Promise.all at once, and the function throws while the other calls of
\* the batch are still outstanding
batchSettle ==
    /\ \E k \in inFlight :
          /\ inFlight' = inFlight \ {k}
          /\ \E resp \in helpersGenerateEmbedding(items[k]) :
                \/ /\ resp.ok
                   /\ answers' = (k :> resp.values) @@ answers
                   /\ UNCHANGED bPc
                \/ /\ ~resp.ok
                   /\ bPc' = IF bPc = "await" THEN "thrown" ELSE bPc
                   /\ UNCHANGED answers
    /\ UNCHANGED <<items, batchSize, bI, bResults>>
    /\ UNCHANGED <<collection, seedVars, searchVars, keywordVars, retryVars>>

\* Promise.all is fulfilled, every call of the batch being fulfilled:
\* results.push(...embeddings), then the 1000 ms timer is started
batchAll ==
    /\ bPc = "await"
    /\ LET batch == batchSlice(bI, batchSize, Len(items)) IN
       /\ inFlight = {}
       /\ batch \subseteq DOMAIN answers
       /\ bResults' = bResults \o [j \in 1..Cardinality(batch) |-> answers[bI + j]]
    /\ answers' = <<>>
    /\ bPc' = "delay"
    /\ UNCHANGED <<items, batchSize, bI, inFlight>>
    /\ UNCHANGED <<collection, seedVars, searchVars, keywordVars, retryVars>>

\* the timer fires: i += batchSize, and the loop goes on
batchDelay ==
    /\ bPc = "delay"
    /\ LET to == batchLoop(bI + batchSize, batchSize, items, bResults) IN
       /\ bPc' = to.pc
       /\ inFlight' = to.inFlight
    /\ bI' = bI + batchSize
    /\ UNCHANGED <<items, batchSize, answers, bResults>>
    /\ UNCHANGED <<collection, seedVars, searchVars, keywordVars, retryVars>>

batchGenerateEmbeddings ==
    \/ batchCall
    \/ batchSettle
    \/ batchAll
    \/ batchDelay

(***************************************************************************)
(* README, Advanced Features 3: generateEmbeddingWithRetry(text, maxRetries)*)
(***************************************************************************)
\* largest `maxRetries` the function is called with
MaxRetriesBound == 4

\* the base of the delay between attempts, in ms
RetryDelay == 1000

\* the texts the function is called with
RetryTexts == {<<65>>, <<66>>, <<104, 32, 105>>}

\* the loop test `i < maxRetries`; when it fails the function body ends
\* without a return statement
retryLoop(i, m) == IF i < m THEN "attempt" ELSE "returned"

\* if (i === maxRetries - 1) throw error
retryLast(i, m) == i = m - 1

\* generateEmbeddingWithRetry(text, maxRetries) is called
retryCall ==
    /\ rPc = "idle"
    /\ \E t \in RetryTexts, m \in 0..MaxRetriesBound :
          /\ rText' = t
          /\ maxRetries' = m
          /\ rPc' = retryLoop(0, m)
    /\ rI' = 0
    /\ UNCHANGED <<rOutcomes, rWaits, rValue>>
    /\ UNCHANGED <<collection, seedVars, searchVars, keywordVars, batchVars>>

\* return await generateEmbedding(text), or the catch clause
retryAttempt ==
    /\ rPc = "attempt"
    /\ \E resp \in helpersGenerateEmbedding(rText) :
          \/ /\ resp.ok
             /\ rOutcomes' = Append(rOutcomes, "ok")
             /\ rValue' = resp.values
             /\ rPc' = "returned"
             /\ UNCHANGED rWaits
          \/ /\ ~resp.ok
             /\ rOutcomes' = Append(rOutcomes, "failed")
             /\ IF retryLast(rI, maxRetries)
                THEN /\ rPc' = "thrown"
                     /\ UNCHANGED rWaits
                ELSE /\ rPc' = "delay"
                     /\ rWaits' = Append(rWaits, RetryDelay * (rI + 1))
             /\ UNCHANGED rValue
    /\ UNCHANGED <<rText, maxRetries, rI>>
    /\ UNCHANGED <<collection, seedVars, searchVars, keywordVars, batchVars>>

\* the timer fires: i++, and the loop goes on
retryDelay ==
    /\ rPc = "delay"
    /\ rI' = rI + 1
    /\ rPc' = retryLoop(rI + 1, maxRetries)
    /\ UNCHANGED <<rText, maxRetries, rOutcomes, rWaits, rValue>>
    /\ UNCHANGED <<collection, seedVars, searchVars, keywordVars, batchVars>>

generateEmbeddingWithRetry ==
    \/ retryCall
    \/ retryAttempt
    \/ retryDelay

(***************************************************************************)
(* The system                                                              *)
(***************************************************************************)
\* what an earlier, complete run of seed.js left in the collection
OldDocs ==
    {[_id |-> ObjectId("old", i),
      name |-> products[i].name,
      description |-> products[i].description,
      embedding |-> Values(textToEmbed(products[i]), OutputDimensionality)] :
        i \in 1..NumProducts}

Init ==
    /\ collection = OldDocs
    /\ pc = [r \in Runs |-> "idle"]
    /\ idx = [r \in Runs |-> 0]
    /\ embedding = [r \in Runs |-> NoVector]
    /\ out = [r \in Runs |-> <<>>]
    /\ closes = [r \in Runs |-> 0]
    /\ before = [r \in Runs |-> {}]
    /\ embedCalls = [r \in Runs |-> <<>>]
    /\ inserted = [r \in Runs |-> <<>>]
    /\ thrown = [r \in Runs |-> NoThrow]
    /\ sPc = "idle"
    /\ argv = <<>>
    /\ query = <<>>
    /\ queryVector = NoVector
    /\ results = NoResults
    /\ sOut = <<>>
    /\ sCloses = 0
    /\ sEmbedCalls = 0
    /\ sAggregates = 0
    /\ sThrown = [thrown |-> "none", rethrow |-> FALSE]
    /\ settled = "pending"
    /\ issued = NoPipeline
    /\ kPc = "idle"
    /\ kArgv = <<>>
    /\ kQuery = <<>>
    /\ kResults = {}
    /\ kOut = <<>>
    /\ kCloses = 0
    /\ kFinds = 0
    /\ kSnapshot = {}
    /\ kThrown = [thrown |-> "none", rethrow |-> FALSE]
    /\ kSettled = "pending"
    /\ bPc = "idle"
    /\ items = <<>>
    /\ batchSize = 0
    /\ bI = 0
    /\ inFlight = {}
    /\ answers = <<>>
    /\ bResults = <<>>
    /\ rPc = "idle"
    /\ rText = <<>>
    /\ maxRetries = 0
    /\ rI = 0
    /\ rOutcomes = <<>>
    /\ rWaits = <<>>
    /\ rValue = NoVector

\* two runs of seed.js against the same database
Next == \E r \in Runs : seedData(r)

Spec == Init /\ [][Next]_vars

\* one run of seed.js while search.js runs
NextSearch == seedData("A") \/ search

SpecSearch == Init /\ [][NextSearch]_vars

\* one run of seed.js while both search scripts run
NextScripts == seedData("A") \/ search \/ keywordSearch

SpecScripts == Init /\ [][NextScripts]_vars

\* one run of seed.js, and one call of batchGenerateEmbeddings
NextBatch == seedData("A") \/ batchGenerateEmbeddings

SpecBatch == Init /\ [][NextBatch]_vars

\* one call of generateEmbeddingWithRetry
NextRetry == generateEmbeddingWithRetry

SpecRetry == Init /\ [][NextRetry]_vars

(***************************************************************************)
(* Properties of seedData                                                  *)
(***************************************************************************)
Range(f) == {f[k] : k \in DOMAIN f}
UpTo(n) == [j \in 1..n |-> j]
Tagged(log, tag) == {k \in DOMAIN log : log[k].t = tag}
OtherRunsIdle(r) == \A q \in Runs \ {r} : pc[q] = "idle"

\* maxRetries = 3 of the README's generateEmbeddingWithRetry, the "configured
\* maximum" of attempts
MaxAttempts == 3

\* C1 as claimed: when the embedding call of one record has failed, every
\* later record of the input is still embedded and inserted by the run.
C1_LaterRecordsStillProcessed ==
    \A r \in Runs :
        (pc[r] = "done" /\ thrown[r].op = "embed") =>
            \A j \in (thrown[r].at + 1)..NumProducts :
                j \in Range(embedCalls[r]) /\ j \in Range(inserted[r])

\* C1 as the code has it: a failed embedding call for record k ends the run:
\* the error is logged, the run goes to close the client, exactly the
\* records 1..k were passed to generateEmbedding and exactly 1..k-1 inserted.
C1_EmbedFailureEndsReseed ==
    \A r \in Runs :
        thrown[r].op = "embed" =>
            /\ pc[r] \in {"close", "done"}
            /\ embedCalls[r] = UpTo(thrown[r].at)
            /\ inserted[r] = UpTo(thrown[r].at - 1)
            /\ Cardinality(Tagged(out[r], "error")) = 1
            /\ Tagged(out[r], "success") = {}

C1_Witness ==
    \E r \in Runs :
        /\ pc[r] = "done"
        /\ thrown[r].op = "embed"
        /\ thrown[r].at > 1
        /\ thrown[r].at < NumProducts

\* C2 as claimed, for F = 1: a finished run in which one record's embedding
\* call failed reports N - 1 succeeded records, and the collection (no other
\* run having touched it) holds N - 1 distinct records.
C2_SucceededIsAllButFailed ==
    \A r \in Runs :
        (pc[r] = "done" /\ thrown[r].op = "embed" /\ OtherRunsIdle(r)) =>
            /\ Cardinality(Tagged(out[r], "inserted")) = NumProducts - 1
            /\ Cardinality({d.name : d \in collection}) = NumProducts - 1

\* C2 as the code has it: a finished run whose first failing call came at
\* record k has inserted exactly the records before k and printed one
\* "Inserted" line for each, in order, then one error line; it prints no
\* counts.  "Total documents: N" is printed only by a run in which nothing
\* failed, and that run inserted all N records.  When no other run touched
\* the collection and deleteMany did not fail, the collection holds exactly
\* the inserted records, one document each.
C2_OutputAndCollection ==
    \A r \in Runs :
        pc[r] = "done" =>
            LET ins == Tagged(out[r], "inserted")
                n == Len(inserted[r])
            IN
            /\ Cardinality(ins) = n
            /\ inserted[r] = UpTo(n)
            /\ \A k \in ins :
                  \E j \in 1..n :
                      /\ out[r][k].v = products[j].name
                      /\ Cardinality({m \in ins : m < k}) = j - 1
            /\ IF thrown[r].op = "none"
               THEN /\ n = NumProducts
                    /\ Tagged(out[r], "error") = {}
                    /\ out[r][Len(out[r])].t = "total"
                    /\ out[r][Len(out[r])].v = <<NumProducts>>
               ELSE /\ n = (IF thrown[r].op = "deleteMany" THEN 0 ELSE thrown[r].at - 1)
                    /\ Tagged(out[r], "total") = {}
                    /\ Tagged(out[r], "error") = {Len(out[r])}
            /\ (OtherRunsIdle(r) /\ thrown[r].op # "deleteMany") =>
                  /\ {d._id : d \in collection} = {ObjectId(r, j) : j \in 1..n}
                  /\ {d.name : d \in collection} = {products[j].name : j \in 1..n}
                  /\ Cardinality(collection) = n

C2_Witness ==
    \E r \in Runs :
        /\ pc[r] = "done"
        /\ OtherRunsIdle(r)
        /\ thrown[r].op = "embed"
        /\ thrown[r].at = 2
        /\ Cardinality(collection) = 1

\* C3: deleteMany has completed before the run's first embedding call and
\* first insert; the records are embedded and inserted one by one in input
\* order, each embedded before it is inserted; and once the run has inserted
\* a document, no document that was in the collection when the run was
\* launched is still there.
C3_ClearThenInOrder ==
    \A r \in Runs :
        /\ (embedCalls[r] # <<>> \/ inserted[r] # <<>> \/ pc[r] \in {"embed", "insert"}) =>
              /\ out[r] # <<>>
              /\ out[r][1].t = "cleared"
        /\ embedCalls[r] = UpTo(Len(embedCalls[r]))
        /\ inserted[r] = UpTo(Len(inserted[r]))
        /\ Len(inserted[r]) <= Len(embedCalls[r])
        /\ Len(embedCalls[r]) <= Len(inserted[r]) + 1
        /\ inserted[r] # <<>> => \A d \in collection : d._id \notin before[r]

C3_Witness ==
    \E r \in Runs :
        /\ Len(inserted[r]) >= 2
        /\ before[r] # {}
        /\ \E d \in collection : d._id = ObjectId(r, 2)

\* C4 as claimed: a record is treated as failed only after the configured
\* maximum of embedding attempts.
C4_FailedOnlyAfterMaxAttempts ==
    \A r \in Runs :
        thrown[r].op = "embed" =>
            Cardinality({k \in DOMAIN embedCalls[r] : embedCalls[r][k] = thrown[r].at})
                = MaxAttempts

\* C4 as the code has it: generateEmbedding is called at most once for a
\* record; a record whose call failed is not called for again, is not
\* stored by the run, and the run ends.
C4_NoRetry ==
    \A r \in Runs :
        /\ \A j \in 1..NumProducts :
              Cardinality({k \in DOMAIN embedCalls[r] : embedCalls[r][k] = j}) <= 1
        /\ thrown[r].op = "embed" =>
              /\ thrown[r].at \notin Range(inserted[r])
              /\ \A d \in collection : d._id # ObjectId(r, thrown[r].at)
              /\ pc[r] \notin {"embed", "insert"}

C4_Witness ==
    \E r \in Runs :
        /\ pc[r] = "done"
        /\ thrown[r].op = "embed"
        /\ thrown[r].at = 1
        /\ embedCalls[r] = <<1>>

(***************************************************************************)
(* Properties of search (vector search)                                    *)
(***************************************************************************)
\* C5: when the query text of the command line is empty, the script answers
\* with its usage text and ends: generateEmbedding is never called and no
\* aggregation is issued.
C5_EmptyQueryNoEmbedderCall ==
    (sPc # "idle" /\ join(argv) = <<>>) =>
        /\ sPc = "exit"
        /\ sEmbedCalls = 0
        /\ sAggregates = 0
        /\ results = NoResults
        /\ Tagged(sOut, "usage") = {1}
        /\ settled = "pending"

C5_Witness ==
    /\ sPc = "exit"
    /\ argv = << <<>> >>
    /\ sEmbedCalls = 0

\* C6 as claimed: when the embedding call of a query fails, the failure
\* reaches the caller of search: the promise of search is rejected.
C6_EmbedderFailurePropagates ==
    (sPc = "done" /\ sThrown.thrown = "embed") => settled = "rejected"

\* C6 as the code has it: when the embedding call of a query fails, search
\* catches the failure: it logs the error, issues no aggregation, prints no
\* results, closes the client once, and its promise is fulfilled.
C6_EmbedderFailureCaughtAndLogged ==
    sThrown.thrown = "embed" =>
        /\ sAggregates = 0
        /\ results = NoResults
        /\ Tagged(sOut, "results") = {}
        /\ Tagged(sOut, "error") = {Len(sOut)}
        /\ sPc \in {"close", "done"}
        /\ sPc = "done" => (settled = "fulfilled" /\ sCloses = 1)
        /\ sPc = "close" => settled = "pending"

C6_Witness ==
    /\ sPc = "done"
    /\ sThrown.thrown = "embed"
    /\ settled = "fulfilled"

\* C7 as claimed: the collection never holds two documents for the same
\* source record.
C7_NoDuplicateRecords ==
    \A d, e \in collection : d.name = e.name => d = e

\* C8 as claimed: every vector stored in the collection has the
\* dimensionality D = 768.
C8_AllVectorsHaveDimensionD ==
    \A d \in collection : d.embedding.dim = OutputDimensionality

\* C8 as the code has it: every document that enters the collection is the
\* current product of a run standing at its insert, and carries exactly the
\* vector generateEmbedding returned to that run, whatever its length.
C8_StoredAsReturned ==
    [][\A d \in collection' \ collection :
          \E r \in Runs :
              /\ pc[r] = "insert"
              /\ d._id = ObjectId(r, idx[r])
              /\ d.name = products[idx[r]].name
              /\ d.embedding = embedding[r]
              /\ d.embedding.dim \in ResponseDims]_vars

C8_Witness ==
    \E d \in collection :
        /\ d.embedding.dim # OutputDimensionality
        /\ \E r \in Runs : d._id = ObjectId(r, 2)

\* C9: every document in the collection, at every moment of a reseed and
\* after a reseed that ended with an error, carries the payload of a product
\* and the vector computed for that product's text; every entry a search
\* returned carries a defined score.
C9_RecordsCarryPayloadAndVector ==
    /\ \A d \in collection :
          \E i \in 1..NumProducts :
              /\ d.name = products[i].name
              /\ d.description = products[i].description
              /\ d.embedding # NoVector
              /\ d.embedding = Values(textToEmbed(products[i]), d.embedding.dim)
    /\ \A k \in DOMAIN results : results[k].score.den > 0

C9_Witness ==
    /\ pc["A"] = "embed"
    /\ thrown["A"].op = "none"
    /\ Len(inserted["A"]) = 2
    /\ sPc = "close"
    /\ Len(results) = 2

\* C10: the answer of a vector search has at most 3 entries and is ordered
\* by non-increasing score.
C10_AtMostLimitOrderedByScore ==
    /\ Len(results) <= 3
    /\ \A k \in 1..(Len(results) - 1) :
          results[k].score.num * results[k + 1].score.den
              >= results[k + 1].score.num * results[k].score.den

C10_Witness ==
    /\ sPc = "close"
    /\ Cardinality(Indexed(collection)) > 3
    /\ Len(results) = 3
    /\ results[1].score.num * results[3].score.den
          > results[3].score.num * results[1].score.den

\* C11: every vector search the script issues asks for at least as many
\* candidates as results (numCandidates >= limit, with limit >= 1), so no
\* request of the script is refused for its parameters.
C11_NumCandidatesAtLeastLimit ==
    sAggregates > 0 =>
        /\ issued.limit >= 1
        /\ issued.numCandidates >= issued.limit
        /\ (queryVector.dim = NumDimensions) = accepts(issued, queryVector)

C11_Witness ==
    /\ sPc = "close"
    /\ sAggregates = 1
    /\ issued.numCandidates > issued.limit
    /\ Len(results) = 3

(***************************************************************************)
(* Properties of the README's helpers                                      *)
(***************************************************************************)
\* C12: never more embedding calls are outstanding than the batch size.  A
\* run of seedData has a call outstanding only when every earlier call was
\* answered and its record inserted.  batchGenerateEmbeddings has at most
\* batchSize calls outstanding, all of them of the current batch, so a batch
\* starts only when no call of the batch before is outstanding; and what it
\* returns holds one embedding for each item, in the order of the items.
C12_BoundedCallsInFlight ==
    /\ \A r \in Runs :
          /\ Len(embedCalls[r]) <= Len(inserted[r]) + 1
          /\ pc[r] = "embed" => Len(embedCalls[r]) = Len(inserted[r])
    /\ Cardinality(inFlight) <= batchSize
    /\ inFlight \subseteq {k \in 1..Len(items) : bI < k /\ k <= bI + batchSize}
    /\ bPc = "delay" => inFlight = {}
    /\ bPc = "returned" =>
          /\ inFlight = {}
          /\ Len(bResults) = Len(items)
          /\ \A k \in 1..Len(items) :
                \E d \in ResponseDims : bResults[k] = Values(items[k], d)

C12_Witness ==
    /\ bPc = "returned"
    /\ Len(items) = 3
    /\ batchSize = 2
    /\ Len(bResults) = 3
    /\ pc["A"] = "embed"
    /\ Len(inserted["A"]) = 1

\* C13 as claimed: for every text and every maxRetries the call makes at
\* most maxRetries attempts and none after a success, and ends either by
\* returning the embedding of its first successful attempt or by throwing
\* after exactly maxRetries failed attempts: it never returns without an
\* embedding.
C13_EmbeddingOrThrowAfterMax ==
    /\ Len(rOutcomes) <= maxRetries
    /\ \A k \in 1..(Len(rOutcomes) - 1) : rOutcomes[k] = "failed"
    /\ rPc = "returned" =>
          /\ rOutcomes # <<>>
          /\ rOutcomes[Len(rOutcomes)] = "ok"
          /\ rValue # NoVector
          /\ \E d \in ResponseDims : rValue = Values(rText, d)
    /\ rPc = "thrown" =>
          /\ Len(rOutcomes) = maxRetries
          /\ \A k \in 1..Len(rOutcomes) : rOutcomes[k] = "failed"

(***************************************************************************)
(* Properties of the scripts together                                      *)
(***************************************************************************)
\* what holds of the close of the client in every state: it has been called
\* once when seedData or search has ended and not before, a thrown error
\* was logged once and led to the close, and the promise of search is
\* fulfilled, never rejected
ClosedOnceAtTheEnd ==
    /\ \A r \in Runs :
          /\ closes[r] = (IF pc[r] = "done" THEN 1 ELSE 0)
          /\ thrown[r].op # "none" =>
                /\ pc[r] \in {"close", "done"}
                /\ Tagged(out[r], "error") = {Len(out[r])}
    /\ sCloses = (IF sPc = "done" THEN 1 ELSE 0)
    /\ sPc = "done" => settled = "fulfilled"
    /\ sThrown.thrown # "none" =>
          /\ sPc \in {"close", "done"}
          /\ Tagged(sOut, "error") = {Len(sOut)}
          /\ ~sThrown.rethrow
    /\ kCloses = (IF kPc = "done" THEN 1 ELSE 0)
    /\ kPc = "done" => kSettled = "fulfilled"
    /\ kThrown.thrown # "none" =>
          /\ kPc \in {"close", "done"}
          /\ Tagged(kOut, "error") = {Len(kOut)}
          /\ ~kThrown.rethrow

\* what holds of every step: a script whose client is closed does nothing
\* more; it issues no deleteMany, embedding call, insertOne, aggregate or
\* find, and no second close
NothingAfterClose ==
    /\ \A r \in Runs :
          closes[r] >= 1 =>
              /\ pc'[r] = pc[r]
              /\ closes'[r] = closes[r]
              /\ embedCalls'[r] = embedCalls[r]
              /\ inserted'[r] = inserted[r]
              /\ thrown'[r] = thrown[r]
    /\ sCloses >= 1 =>
          /\ sPc' = sPc
          /\ sCloses' = sCloses
          /\ sAggregates' = sAggregates
          /\ sEmbedCalls' = sEmbedCalls
    /\ kCloses >= 1 =>
          /\ kPc' = kPc
          /\ kCloses' = kCloses
          /\ kFinds' = kFinds

\* C14: on every path of seedData and of both search functions (success,
\* failed embedding call, failed database call) the client is closed exactly
\* once, as the last step, no database operation follows the close, and the
\* error is caught and logged, not thrown again.
C14_ClosedOnceLastNoRethrow ==
    []ClosedOnceAtTheEnd /\ [][NothingAfterClose]_vars

C14_Witness ==
    /\ pc["A"] = "done"
    /\ thrown["A"].op = "insertOne"
    /\ closes["A"] = 1
    /\ sPc = "done"
    /\ sThrown.thrown = "embed"
    /\ sCloses = 1
    /\ kPc = "done"
    /\ kThrown.thrown = "none"
    /\ kCloses = 1

\* the text q occurs in the text, letters compared without regard to case
Contains(text, q) ==
    \E off \in 0..(Len(text) - Len(q)) :
        \A j \in 1..Len(q) : fold(q[j]) = fold(text[off + j])

\* C15 as claimed: the keyword search returns exactly the documents of the
\* collection whose name contains the query text, compared without regard
\* to case.
C15_ExactlyNamesContainingQuery ==
    (kPc \in {"close", "done"} /\ kThrown.thrown = "none") =>
        kResults = {d \in kSnapshot : Contains(d.name, kQuery)}

====
